---- MODULE Spec2Model ----
(***************************************************************************)
(* The annotation state engine of the whiteboard (src/src/main.rs):        *)
(* WindowState::input, the blink polls of update / about_to_wait and the   *)
(* undo button of render, as a state machine over the fields of            *)
(* WindowState.                                                            *)
(*                                                                         *)
(* Conventions.                                                            *)
(*  - Option<T>: None is <<>>, Some(v) is <<v>>.                           *)
(*  - An Instant is held as the time elapsed since it (milliseconds), so   *)
(*    Instant::now() is 0 and `t.elapsed()` is the stored value; Tick      *)
(*    lets time pass.                                                      *)
(*  - A String is the sequence of its chars.                               *)
(*  - A normalised coordinate x/width*2-1 is held in units of 1/width, as  *)
(*    2*x - width (and in units of 1/height for y).                        *)
(*  - Vec indices are the code's (from 0); sequences count from 1.         *)
(***************************************************************************)
EXTENDS Integers, Sequences, FiniteSets, TLC

\* ------------------------------------------------------------- bounds
\* Spec: elements of strokes + shapes + texts, points of one freehand
\* drag, chars of one text annotation
MaxScene == 2
MaxPoints == 1
MaxChars == 1
\* keys held down together
MaxHeld == 2
\* SpecText: text annotations, and chars of one
MaxTexts == 2
MaxTyped == 2
\* SpecClicks: text annotations
MaxClicked == 3
\* SpecStrokes: strokes, and points of one
MaxStrokes == 3
MaxDrawn == 2
MaxRendered == 3
MaxGesture == 3
\* time passes in steps of TickMs; elapsed times saturate at ElapsedCap
TickMs == 500
ElapsedCap == 1000

\* ------------------------------------------------- program constants
DOUBLE_CLICK_THRESHOLD == 500
DOUBLE_CLICK_DISTANCE == 5
CURSOR_BLINK_INTERVAL == 500
\* WindowState.size (the window's inner size), fixed here
SizeWidth == 8
SizeHeight == 8
font_size == 16
\* current_color, [0,0,0,1] at construction; the colour modal is not modelled
current_color == <<0, 0, 0, 1>>

\* ------------------------------------------------------------ inputs
\* pointer positions (device pixels): the origin, a point at distance
\* exactly 5 from it, and a point farther than 5 from the origin
Origin == <<0, 0>>
Near == <<3, 4>>
Far == <<4, 4>>
Positions == {Origin, Near, Far}
\* Key::Character(c) is the char itself
Chars == {"z", "s"}
Keys == Chars \cup {"Control", "Enter", "Backspace", "Delete", "GoBack"}

\* ----------------------------------------------------------- helpers
None == <<>>
Some(v) == <<v>>
Unwrap(o) == o[1]
Last(s) == s[Len(s)]
Front(s) == SubSeq(s, 1, Len(s) - 1)
MinOf(S) == CHOOSE m \in S : \A n \in S : m <= n
Cap(t) == IF t > ElapsedCap THEN ElapsedCap ELSE t

VARIABLES
    pressed_keys,         \* HashSet<Key>
    actions,              \* Vec<Action>
    texts,                \* Vec<TextEntries>
    strokes,              \* Vec<Vec<Vertex>>
    current_stroke,       \* Vec<Vertex>
    shapes,               \* Vec<Rectangle>
    shape_positions,      \* Vec<Vertex>
    mouse_pressed,
    create_rect,
    start_typing,
    editing_text_index,   \* Option<usize>
    last_cursor_position,
    last_click_time,      \* Option<Instant>
    last_click_position,  \* Option<PhysicalPosition>
    cursor_visible,
    cursor_timer,         \* Instant
    panicked,             \* the process aborted on a panic
    vertex_buffer,        \* the stroke vertex list update uploaded last
    flattened_shapes,     \* the rectangle vertex list render drew last
    last,                 \* the handler that ran last and what it did
    stroke_run,           \* SpecStrokes: strokes committed, then undone
    typing_run,           \* SpecText: what was typed into a fresh text
    insert_run,           \* SpecEdit: the texts before the char just inserted
    gesture_run           \* SpecGesture: actions appended since left-button-down

vars == <<pressed_keys, actions, texts, strokes, current_stroke, shapes,
          shape_positions, mouse_pressed, create_rect, start_typing,
          editing_text_index, last_cursor_position, last_click_time,
          last_click_position, cursor_visible, cursor_timer, panicked,
          vertex_buffer, flattened_shapes, last,
          stroke_run, typing_run, insert_run, gesture_run>>

\* ------------------------------------------------------- data types
Vertex(pos) == [position |-> pos, color |-> current_color]

\* x/width*2-1 and -(y/height*2-1), in units of 1/width and 1/height
Normalize(p) == <<2 * p[1] - SizeWidth, -(2 * p[2] - SizeHeight)>>

Rectangle(first, lst) ==
    [first |-> first.position, last |-> lst.position, color |-> current_color]

normalized_to_rgba(c) == <<c[1] * 255, c[2] * 255, c[3] * 255, c[4] * 255>>

TextEntries_null(color, size) ==
    [font_size |-> size, position |-> <<0, 0>>, color |-> color, text |-> <<>>,
     pending |-> TRUE, bounds |-> [x |-> 0, y |-> 0, width |-> 0, height |-> 0]]

\* the Stroke action built after current_stroke.clear()
ActionStrokeCleared(s) == [tag |-> "Stroke", payload |-> <<>>]
ActionStroke(s) == [tag |-> "Stroke", payload |-> s]
ActionText(t) == [tag |-> "Text", payload |-> t]
ActionShapes(r) == [tag |-> "Shapes", payload |-> r]

SceneSize == Len(strokes) + Len(shapes) + Len(texts)

\* what a handler reports: its name, whether it called request_redraw, and
\* the input or the branch it took
Report(ev, redraw, arg) == [ev |-> ev, redraw |-> redraw, arg |-> arg]

\* no run is being followed
NoInsert == [inserted |-> FALSE, before |-> <<>>]
NoTyping == [stage |-> "none", index |-> 0, typed |-> <<>>, log |-> 0]

Init ==
    /\ pressed_keys = {}
    /\ actions = <<>>
    /\ texts = <<>>
    /\ strokes = <<>>
    /\ current_stroke = <<>>
    /\ shapes = <<>>
    /\ shape_positions = <<>>
    /\ mouse_pressed = FALSE
    /\ create_rect = FALSE
    /\ start_typing = FALSE
    /\ editing_text_index = None
    /\ last_cursor_position = <<0, 0>>
    /\ last_click_time = None
    /\ last_click_position = None
    /\ cursor_visible = FALSE
    /\ cursor_timer = 0
    /\ panicked = FALSE
    /\ vertex_buffer = <<>>
    /\ flattened_shapes = <<>>
    /\ last = Report("new", FALSE, <<>>)
    /\ stroke_run = [commits |-> 0, undos |-> 0, pure |-> TRUE]
    /\ typing_run = NoTyping
    /\ insert_run = NoInsert
    /\ gesture_run = 0

\* ------------------------------------------------ pure parts of input
\* a pop that removes nothing
PopNothing(s) == s

\* a pop that removes the last two elements
PopTwo(s) == IF Len(s) <= 2 THEN <<>> ELSE SubSeq(s, 1, Len(s) - 2)

\* Vec::pop: the vector without its last element; an empty one is left alone
Pop(s) == IF s = <<>> THEN s ELSE Front(s)

\* the four collections undo works on
Scene == [actions |-> actions, strokes |-> strokes, shapes |-> shapes,
          texts |-> texts]

\* Undo with clear() for pop() on the collection
UndoClears(sc) ==
    IF sc.actions = <<>> THEN sc
    ELSE LET action == Last(sc.actions)
             popped == [sc EXCEPT !.actions = Front(sc.actions)]
         IN  CASE action.tag = "Stroke" -> [popped EXCEPT !.strokes = <<>>]
               [] action.tag = "Text" -> [popped EXCEPT !.texts = <<>>]
               [] action.tag = "Shapes" -> [popped EXCEPT !.shapes = <<>>]

\* Undo with the Stroke and Shapes arms of the match swapped
UndoSwapped(sc) ==
    IF sc.actions = <<>> THEN sc
    ELSE LET action == Last(sc.actions)
             popped == [sc EXCEPT !.actions = Front(sc.actions)]
         IN  CASE action.tag = "Stroke" -> [popped EXCEPT !.shapes = Pop(@)]
               [] action.tag = "Text" -> [popped EXCEPT !.texts = Pop(@)]
               [] action.tag = "Shapes" -> [popped EXCEPT !.strokes = Pop(@)]

\* Undo removing the oldest element of the collection (remove(0) for pop())
UndoOldest(sc) ==
    IF sc.actions = <<>> THEN sc
    ELSE LET action == Last(sc.actions)
             popped == [sc EXCEPT !.actions = Front(sc.actions)]
             rest(v) == IF v = <<>> THEN v ELSE Tail(v)
         IN  CASE action.tag = "Stroke" -> [popped EXCEPT !.strokes = rest(@)]
               [] action.tag = "Text" -> [popped EXCEPT !.texts = rest(@)]
               [] action.tag = "Shapes" -> [popped EXCEPT !.shapes = rest(@)]

\* Undo that pops a text when the log is empty
UndoOrText(sc) ==
    IF sc.actions = <<>> THEN [sc EXCEPT !.texts = Pop(@)]
    ELSE LET action == Last(sc.actions)
             popped == [sc EXCEPT !.actions = Front(sc.actions)]
         IN  CASE action.tag = "Stroke" -> [popped EXCEPT !.strokes = Pop(@)]
               [] action.tag = "Text" -> [popped EXCEPT !.texts = Pop(@)]
               [] action.tag = "Shapes" -> [popped EXCEPT !.shapes = Pop(@)]

\* `if let Some(action) = self.actions.pop() { match action { .. } }`
Undo(sc) ==
    IF sc.actions = <<>> THEN sc
    ELSE LET action == Last(sc.actions)
             popped == [sc EXCEPT !.actions = Front(sc.actions)]
         IN  CASE action.tag = "Stroke" -> [popped EXCEPT !.strokes = Pop(@)]
               [] action.tag = "Text" -> [popped EXCEPT !.texts = Pop(@)]
               [] action.tag = "Shapes" -> [popped EXCEPT !.shapes = Pop(@)]

\* the variant of the action undo pops, "none" on an empty log
UndoneTag(sc) == IF sc.actions = <<>> THEN "none" ELSE Last(sc.actions).tag

\* dx*dx + dy*dy
DistanceSquared(p, q) ==
    (p[1] - q[1]) * (p[1] - q[1]) + (p[2] - q[2]) * (p[2] - q[2])

\* double_click_detected with both comparisons strict
DoubleClickStrict(position) ==
    /\ last_click_time # None
    /\ Unwrap(last_click_time) < DOUBLE_CLICK_THRESHOLD
    /\ last_click_position # None
    /\ DistanceSquared(position, Unwrap(last_click_position))
           < DOUBLE_CLICK_DISTANCE * DOUBLE_CLICK_DISTANCE

\* double_click_detected for a right press at `position`
DoubleClickDetected(position) ==
    /\ last_click_time # None
    /\ Unwrap(last_click_time) <= DOUBLE_CLICK_THRESHOLD
    /\ last_click_position # None
    /\ DistanceSquared(position, Unwrap(last_click_position))
           <= DOUBLE_CLICK_DISTANCE * DOUBLE_CLICK_DISTANCE

\* the containment test of the double-click loop
InBounds(bounds, position) ==
    /\ position[1] >= bounds.x
    /\ position[1] <= bounds.x + bounds.width
    /\ position[2] >= bounds.y
    /\ position[2] <= bounds.y + bounds.height

\* the index the loop stops at (`break` on the first match), if any
HitTest(ts, position) ==
    LET hits == {i \in 1..Len(ts) : InBounds(ts[i].bounds, position)}
    IN  IF hits = {} THEN None ELSE Some(MinOf(hits) - 1)

\* a commit that logs the text only when it has content
CommitNonEmpty(sc) ==
    IF sc.texts = <<>> THEN sc
    ELSE LET n == Len(sc.texts)
             ts == [sc.texts EXCEPT ![n].pending = FALSE]
         IN  [sc EXCEPT !.texts = ts,
                        !.actions = IF ts[n].text = <<>> THEN sc.actions
                                    ELSE Append(sc.actions, ActionText(ts[n]))]

\* a commit that logs the text twice
CommitTwice(sc) ==
    IF sc.texts = <<>> THEN sc
    ELSE LET n == Len(sc.texts)
             ts == [sc.texts EXCEPT ![n].pending = FALSE]
         IN  [sc EXCEPT !.texts = ts,
                        !.actions = sc.actions \o <<ActionText(ts[n]),
                                                    ActionText(ts[n])>>]

\* text.pending = false; self.actions.push(Action::Text(text.clone()))
\* on texts.last_mut(), when there is one
CommitLast(sc) ==
    IF sc.texts = <<>> THEN sc
    ELSE LET n == Len(sc.texts)
             ts == [sc.texts EXCEPT ![n].pending = FALSE]
         IN  [sc EXCEPT !.texts = ts,
                        !.actions = Append(sc.actions, ActionText(ts[n]))]

\* push_str putting the char in front
PushFront(text, char) == <<char>> \o text

\* text.text.push_str(char)
PushStr(text, char) == Append(text, char)

\* a Backspace that takes count() - 2 chars
DropTwoChars(text) == SubSeq(text, 1, Len(text) - 2)

\* text.chars().take(text.chars().count() - 1).collect()
DropLastChar(text) == SubSeq(text, 1, Len(text) - 1)

\* the Rectangle with first and last taken the wrong way round
ShapeOfSwapped(sp) ==
    IF sp = <<>> THEN None ELSE Some(Rectangle(Last(sp), sp[1]))

\* the Rectangle of shape_positions.first() and .last(), when there are any
ShapeOf(sp) == IF sp = <<>> THEN None ELSE Some(Rectangle(sp[1], Last(sp)))

\* a rectangle drawn by its two diagonals and two of its sides
to_vertices_crossed(rect) ==
    LET x1 == rect.first[1]
        y1 == rect.first[2]
        x2 == rect.last[1]
        y2 == rect.last[2]
        v(x, y) == [position |-> <<x, y>>, color |-> rect.color]
    IN  <<v(x1, y2), v(x2, y1), v(x2, y2), v(x2, y1),
          v(x2, y1), v(x1, y1), v(x1, y1), v(x2, y2)>>

\* Rectangle::to_vertices
to_vertices(rect) ==
    LET x1 == rect.first[1]
        y1 == rect.first[2]
        x2 == rect.last[1]
        y2 == rect.last[2]
        v(x, y) == [position |-> <<x, y>>, color |-> rect.color]
    IN  <<v(x1, y2), v(x2, y2), v(x2, y2), v(x2, y1),
          v(x2, y1), v(x1, y1), v(x1, y1), v(x1, y2)>>

\* for i in 0..(stroke.len() - 1): push stroke[i], push stroke[i + 1]
\* (indices from 1 here)
RECURSIVE PushPairs(_, _)
PushPairs(stroke, i) ==
    IF i > Len(stroke) - 1 THEN <<>>
    ELSE <<stroke[i], stroke[i + 1]>> \o PushPairs(stroke, i + 1)

\* a line strip: every vertex of the stroke once
StrokeStrip(stroke) == IF Len(stroke) >= 2 THEN stroke ELSE <<>>

\* what update pushes for one stroke
StrokeSegments(stroke) ==
    IF Len(stroke) >= 2 THEN PushPairs(stroke, 1) ELSE <<>>

\* for action in &self.actions: the segments of every Action::Stroke
RECURSIVE LogSegments(_)
LogSegments(log) ==
    IF log = <<>> THEN <<>>
    ELSE (IF log[1].tag = "Stroke" THEN StrokeSegments(log[1].payload)
          ELSE <<>>) \o LogSegments(Tail(log))

\* all_vertices of update: the log's strokes, then the stroke in progress
all_vertices(log, stroke) == LogSegments(log) \o StrokeSegments(stroke)

\* temp_shapes of render: the shapes and the rectangle being dragged
temp_shapes ==
    IF create_rect /\ shape_positions # <<>>
    THEN Append(shapes, Rectangle(shape_positions[1], Last(shape_positions)))
    ELSE shapes

\* temp_shapes.iter().flat_map(|rect| rect.to_vertices()).collect()
RECURSIVE flat_map_to_vertices(_)
flat_map_to_vertices(rects) ==
    IF rects = <<>> THEN <<>>
    ELSE to_vertices(rects[1]) \o flat_map_to_vertices(Tail(rects))

\* a blink test that leaves out the elapsed time
BlinkAnyTime == start_typing

\* the blink test shared by Focused, update and about_to_wait
BlinkDue == start_typing /\ cursor_timer >= CURSOR_BLINK_INTERVAL

Blink ==
    IF BlinkDue
    THEN cursor_visible' = ~cursor_visible /\ cursor_timer' = 0
    ELSE UNCHANGED <<cursor_visible, cursor_timer>>

Running == ~panicked

\* no gesture and no text-edit session
Idle == ~mouse_pressed /\ ~start_typing /\ editing_text_index = None

\* ----------------------------------------------------------- handlers
\* WindowEvent::Focused
Focused(focused) ==
    /\ Running
    /\ UNCHANGED <<vertex_buffer, flattened_shapes>>
    /\ Blink
    /\ last' = Report("Focused", BlinkDue, <<focused>>)
    /\ UNCHANGED <<pressed_keys, actions, texts, strokes, current_stroke,
                   shapes, shape_positions, mouse_pressed, create_rect,
                   start_typing, editing_text_index, last_cursor_position,
                   last_click_time, last_click_position, panicked>>

\* WindowEvent::CursorMoved
CursorMoved(position) ==
    LET v == Vertex(Normalize(position))
    IN  /\ Running
        /\ UNCHANGED <<vertex_buffer, flattened_shapes>>
        /\ last_cursor_position' = position
        /\ IF mouse_pressed
           THEN IF create_rect
                THEN /\ shape_positions' =
                          IF shape_positions = <<>> THEN <<v>>
                          ELSE Append(IF Len(shape_positions) > 1
                                      THEN Front(shape_positions)
                                      ELSE shape_positions, v)
                     /\ UNCHANGED current_stroke
                ELSE /\ current_stroke' = Append(current_stroke, v)
                     /\ UNCHANGED shape_positions
           ELSE UNCHANGED <<current_stroke, shape_positions>>
        /\ last' = Report("CursorMoved", mouse_pressed, <<position>>)
        /\ UNCHANGED <<pressed_keys, actions, texts, strokes, shapes,
                       mouse_pressed, create_rect, start_typing,
                       editing_text_index, last_click_time,
                       last_click_position, cursor_visible, cursor_timer,
                       panicked>>

\* WindowEvent::MouseInput, MouseButton::Right, ElementState::Pressed
RightPress ==
    LET position == last_cursor_position
        double == DoubleClickDetected(position)
        hit == IF double THEN HitTest(texts, position) ELSE None
        index == IF hit # None THEN hit ELSE editing_text_index
        typing == IF hit # None THEN TRUE ELSE start_typing
        marked == IF hit # None
                  THEN [texts EXCEPT ![Unwrap(hit) + 1].pending = TRUE]
                  ELSE texts
        commit == typing /\ index = None
        done == CommitLast([Scene EXCEPT !.texts = marked])
        fresh == [TextEntries_null(normalized_to_rgba(current_color), font_size)
                      EXCEPT !.position = position]
    IN  /\ Running
        /\ UNCHANGED <<vertex_buffer, flattened_shapes>>
        /\ last_click_time' = Some(0)
        /\ last_click_position' = Some(position)
        /\ editing_text_index' = index
        /\ IF commit
           THEN /\ start_typing' = FALSE
                /\ texts' = done.texts
                /\ actions' = done.actions
           ELSE /\ start_typing' = TRUE
                /\ texts' = Append(marked, fresh)
                /\ UNCHANGED actions
        /\ last' = Report("RightPress", hit # None, <<double, hit, Idle>>)
        /\ UNCHANGED <<pressed_keys, strokes, current_stroke, shapes,
                       shape_positions, mouse_pressed, create_rect,
                       last_cursor_position, cursor_visible, cursor_timer,
                       panicked>>

\* WindowEvent::MouseInput, MouseButton::Left, ElementState::Pressed
LeftPress ==
    /\ Running
    /\ UNCHANGED <<vertex_buffer, flattened_shapes>>
    /\ mouse_pressed' = TRUE
    /\ current_stroke' = <<>>
    /\ create_rect' = IF "s" \in pressed_keys THEN TRUE ELSE create_rect
    /\ last' = Report("LeftPress", FALSE, <<>>)
    /\ UNCHANGED <<pressed_keys, actions, texts, strokes, shapes,
                   shape_positions, start_typing, editing_text_index,
                   last_cursor_position, last_click_time, last_click_position,
                   cursor_visible, cursor_timer, panicked>>

\* WindowEvent::MouseInput, MouseButton::Left, ElementState::Released
LeftRelease ==
    LET stroke == current_stroke # <<>>
        shape == ShapeOf(shape_positions)
        a1 == IF stroke THEN Append(actions, ActionStroke(current_stroke))
              ELSE actions
    IN  /\ Running
        /\ UNCHANGED <<vertex_buffer, flattened_shapes>>
        /\ mouse_pressed' = FALSE
        /\ strokes' = IF stroke THEN Append(strokes, current_stroke) ELSE strokes
        /\ current_stroke' = <<>>
        /\ create_rect' = FALSE
        /\ actions' = IF shape # None
                      THEN Append(a1, ActionShapes(Unwrap(shape))) ELSE a1
        /\ shapes' = IF shape # None THEN Append(shapes, Unwrap(shape))
                     ELSE shapes
        /\ shape_positions' = <<>>
        /\ last' = Report("LeftRelease", TRUE, <<>>)
        /\ UNCHANGED <<pressed_keys, texts, start_typing, editing_text_index,
                       last_cursor_position, last_click_time,
                       last_click_position, cursor_visible, cursor_timer,
                       panicked>>

\* the entry Delete works on: texts.get_mut(index) or texts.last_mut(),
\* as an index of the sequence (0 when there is none)
DeleteTarget ==
    IF editing_text_index # None
    THEN IF Unwrap(editing_text_index) < Len(texts)
         THEN Unwrap(editing_text_index) + 1 ELSE 0
    ELSE Len(texts)

\* the entry Backspace works on: texts[index] or texts.last_mut()
BackspaceTarget ==
    IF editing_text_index # None THEN Unwrap(editing_text_index) + 1
    ELSE Len(texts)

\* `self.texts[index]` out of bounds
BackspacePanics ==
    editing_text_index # None /\ Unwrap(editing_text_index) >= Len(texts)

\* WindowEvent::KeyboardInput, ElementState::Pressed
KeyPressed(key) ==
    LET held == pressed_keys \cup {key}
        editing == start_typing \/ editing_text_index # None
        n == Len(texts)
        typed == editing /\ key \in Chars /\ n > 0 /\ texts[n].pending
        confirm == editing /\ key \in {"Enter", "GoBack"}
        del == IF editing /\ key = "Delete" THEN DeleteTarget ELSE 0
        panics == editing /\ key = "Backspace" /\ BackspacePanics
        back == IF editing /\ key = "Backspace" /\ ~panics
                   /\ BackspaceTarget > 0
                   /\ texts[BackspaceTarget].pending
                   /\ Len(texts[BackspaceTarget].text) > 0
                THEN BackspaceTarget ELSE 0
        undo == ~editing /\ "Control" \in held /\ "z" \in held
        after == CASE typed -> [Scene EXCEPT !.texts[n].text = PushStr(@, key)]
                   [] confirm -> CommitLast(Scene)
                   [] del > 0 -> [Scene EXCEPT !.texts[del].text = Pop(@)]
                   [] back > 0 ->
                        [Scene EXCEPT !.texts[back].text = DropLastChar(@)]
                   [] undo -> Undo(Scene)
                   [] OTHER -> Scene
        branch == IF editing THEN "typing" ELSE IF undo THEN "undo" ELSE "none"
        popped == IF undo THEN UndoneTag(Scene) ELSE "none"
    IN  /\ Running
        /\ UNCHANGED <<vertex_buffer, flattened_shapes>>
        /\ pressed_keys' = held
        /\ panicked' = panics
        /\ start_typing' = IF confirm THEN FALSE ELSE start_typing
        /\ editing_text_index' = IF confirm THEN None ELSE editing_text_index
        /\ actions' = after.actions
        /\ strokes' = after.strokes
        /\ shapes' = after.shapes
        /\ texts' = after.texts
        /\ last' = Report("KeyPressed",
                          typed \/ confirm \/ del > 0 \/ back > 0 \/ undo,
                          <<key, branch, popped>>)
        /\ UNCHANGED <<current_stroke, shape_positions, mouse_pressed,
                       create_rect, last_cursor_position, last_click_time,
                       last_click_position, cursor_visible, cursor_timer>>

\* a key release that leaves shape mode but keeps the shape in progress
KeyReleasedKeepsShape(key) ==
    /\ Running
    /\ UNCHANGED <<vertex_buffer, flattened_shapes>>
    /\ pressed_keys' = pressed_keys \ {key}
    /\ create_rect' = FALSE
    /\ last' = Report("KeyReleased", FALSE, <<key>>)
    /\ UNCHANGED <<actions, shapes, shape_positions, texts, strokes,
                   current_stroke, mouse_pressed, start_typing,
                   editing_text_index, last_cursor_position, last_click_time,
                   last_click_position, cursor_visible, cursor_timer,
                   panicked>>

\* WindowEvent::KeyboardInput, ElementState::Released
KeyReleased(key) ==
    LET shape == ShapeOf(shape_positions)
    IN  /\ Running
        /\ UNCHANGED <<vertex_buffer, flattened_shapes>>
        /\ pressed_keys' = pressed_keys \ {key}
        /\ create_rect' = FALSE
        /\ actions' = IF shape # None
                      THEN Append(actions, ActionShapes(Unwrap(shape)))
                      ELSE actions
        /\ shapes' = IF shape # None THEN Append(shapes, Unwrap(shape))
                     ELSE shapes
        /\ shape_positions' = <<>>
        /\ last' = Report("KeyReleased", FALSE, <<key>>)
        /\ UNCHANGED <<texts, strokes, current_stroke, mouse_pressed,
                       start_typing, editing_text_index, last_cursor_position,
                       last_click_time, last_click_position, cursor_visible,
                       cursor_timer, panicked>>

\* render: the toolbar's undo button (`prev_button.clicked()`)
ToolbarUndo ==
    LET after == Undo(Scene)
    IN  /\ Running
        /\ UNCHANGED <<vertex_buffer, flattened_shapes>>
        /\ actions' = after.actions
        /\ strokes' = after.strokes
        /\ shapes' = after.shapes
        /\ texts' = after.texts
        /\ last' = Report("ToolbarUndo", TRUE, <<"", "undo", UndoneTag(Scene)>>)
        /\ UNCHANGED <<pressed_keys, current_stroke, shape_positions,
                       mouse_pressed, create_rect, start_typing,
                       editing_text_index, last_cursor_position,
                       last_click_time, last_click_position, cursor_visible,
                       cursor_timer, panicked>>

\* render: the toolbar's rectangle button (`sqaure_button.clicked()`)
ToolbarRect ==
    /\ Running
    /\ UNCHANGED <<vertex_buffer, flattened_shapes>>
    /\ create_rect' = TRUE
    /\ last' = Report("ToolbarRect", FALSE, <<>>)
    /\ UNCHANGED <<pressed_keys, actions, texts, strokes, current_stroke,
                   shapes, shape_positions, mouse_pressed, start_typing,
                   editing_text_index, last_cursor_position, last_click_time,
                   last_click_position, cursor_visible, cursor_timer, panicked>>

\* WindowState::update, on Event::RedrawRequested: the blink poll
Update ==
    /\ Running
    /\ vertex_buffer' = all_vertices(actions, current_stroke)
    /\ UNCHANGED flattened_shapes
    /\ Blink
    /\ last' = Report("update", BlinkDue, <<>>)
    /\ UNCHANGED <<pressed_keys, actions, texts, strokes, current_stroke,
                   shapes, shape_positions, mouse_pressed, create_rect,
                   start_typing, editing_text_index, last_cursor_position,
                   last_click_time, last_click_position, panicked>>

\* the rectangle pass of WindowState::render
Render ==
    /\ Running
    /\ flattened_shapes' = flat_map_to_vertices(temp_shapes)
    /\ last' = Report("render", FALSE, <<>>)
    /\ UNCHANGED <<pressed_keys, actions, texts, strokes, current_stroke,
                   shapes, shape_positions, mouse_pressed, create_rect,
                   start_typing, editing_text_index, last_cursor_position,
                   last_click_time, last_click_position, cursor_visible,
                   cursor_timer, panicked, vertex_buffer>>

\* Application::about_to_wait, on Event::MainEventsCleared
AboutToWait ==
    /\ Running
    /\ UNCHANGED <<vertex_buffer, flattened_shapes>>
    /\ Blink
    /\ last' = Report("about_to_wait", BlinkDue, <<>>)
    /\ UNCHANGED <<pressed_keys, actions, texts, strokes, current_stroke,
                   shapes, shape_positions, mouse_pressed, create_rect,
                   start_typing, editing_text_index, last_cursor_position,
                   last_click_time, last_click_position, panicked>>

\* TickMs of monotonic time pass between two events
Tick ==
    /\ Running
    /\ UNCHANGED <<vertex_buffer, flattened_shapes>>
    /\ last_click_time' = IF last_click_time = None THEN None
                          ELSE Some(Cap(Unwrap(last_click_time) + TickMs))
    /\ cursor_timer' = Cap(cursor_timer + TickMs)
    /\ UNCHANGED <<pressed_keys, actions, texts, strokes, current_stroke,
                   shapes, shape_positions, mouse_pressed, create_rect,
                   start_typing, editing_text_index, last_cursor_position,
                   last_click_position, cursor_visible, panicked, last>>

\* -------------------------------------------------------- environment
\* the sizes a run stays within
Within(scene, points, chars, held) ==
    /\ SceneSize <= scene
    /\ Len(current_stroke) <= points
    /\ \A i \in 1..Len(texts) : Len(texts[i].text) <= chars
    /\ Cardinality(pressed_keys) <= held

\* keys that are tapped: released before the next event
TapKeys == {"Enter", "Backspace", "Delete", "GoBack"}
NoTap == pressed_keys \cap TapKeys = {}

\* a key goes up only after it went down
Release == \E key \in pressed_keys : KeyReleased(key)

\* ------------------------------------------------ the whole interpreter
\* pointer, keyboard and toolbar events in any order, all within one
\* double-click window (no Tick): a right press is a double click exactly
\* when it is within DOUBLE_CLICK_DISTANCE of the previous one. A toolbar
\* button reports clicked() once the left button is up again, so the toolbar
\* handlers run with mouse_pressed = FALSE
Event ==
    \/ NoTap /\ \E position \in {Origin, Far} : CursorMoved(position)
    \/ NoTap /\ RightPress
    \/ NoTap /\ LeftPress
    \/ NoTap /\ LeftRelease
    \/ NoTap /\ \E key \in Chars \cup {"Control", "Enter"} : KeyPressed(key)
    \/ Release
    \/ NoTap /\ ~mouse_pressed /\ ToolbarUndo
    \/ NoTap /\ ~mouse_pressed /\ ToolbarRect

Next ==
    /\ Event
    /\ Within(MaxScene, MaxPoints, MaxChars, MaxHeld)'
    /\ UNCHANGED <<stroke_run, typing_run, insert_run, gesture_run>>

Spec == Init /\ [][Next]_vars

\* --------------------------------------------------------- right clicks
\* right clicks at any of the positions, with time passing, Enter and undo;
\* nothing is typed and the left button is never touched
ClickEvent ==
    \/ NoTap /\ \E position \in Positions : CursorMoved(position)
    \/ NoTap /\ RightPress
    \/ NoTap /\ KeyPressed("Enter")
    \/ Release
    \/ NoTap /\ ToolbarUndo
    \/ NoTap /\ Tick

NextClicks ==
    /\ ClickEvent
    /\ Within(MaxClicked, 0, 0, MaxHeld)'
    /\ UNCHANGED <<stroke_run, typing_run, insert_run, gesture_run>>

SpecClicks == Init /\ [][NextClicks]_vars

\* -------------------------------------------------------- text sessions
\* right clicks, every key and undo; the left button is never touched
TextEvent ==
    \/ NoTap /\ \E position \in {Origin, Far} : CursorMoved(position)
    \/ NoTap /\ RightPress
    \/ NoTap /\ \E key \in Keys : KeyPressed(key)
    \/ Release
    \/ NoTap /\ ToolbarUndo

\* typing_run follows the runs "right click from Idle that creates a text,
\* characters typed, Enter", with key releases and pointer moves in between
TrackTyping ==
    LET ev == last'.ev
        fresh == ev = "RightPress" /\ Idle /\ Len(texts') = Len(texts) + 1
        key == IF ev = "KeyPressed" THEN last'.arg[1] ELSE ""
        typing == typing_run.stage = "typing"
    IN  typing_run' =
            IF fresh
            THEN [stage |-> "typing", index |-> Len(texts'), typed |-> <<>>,
                  log |-> Len(actions)]
            ELSE IF typing /\ key \in Chars
            THEN [typing_run EXCEPT !.typed = Append(@, key)]
            ELSE IF typing /\ key = "Enter"
            THEN [typing_run EXCEPT !.stage = "entered"]
            ELSE IF typing /\ ev \in {"KeyReleased", "CursorMoved"}
            THEN typing_run
            ELSE NoTyping

NextText ==
    /\ TextEvent
    /\ Within(MaxTexts, 0, MaxTyped, MaxHeld)'
    /\ TrackTyping
    /\ UNCHANGED <<stroke_run, insert_run, gesture_run>>

SpecText == Init /\ [][NextText]_vars

\* ------------------------------------------------------ freehand strokes
\* left-button drags and the Ctrl+Z chord: no shape mode, no text
StrokeEvent ==
    \/ \E position \in {Origin, Far} : CursorMoved(position)
    \/ LeftPress
    \/ LeftRelease
    \/ \E key \in {"Control", "z"} : KeyPressed(key)
    \/ Release

\* stroke_run counts the strokes committed and then the undos that popped
\* one; a stroke committed after an undo ends the run
TrackStrokes ==
    LET commit == last'.ev = "LeftRelease" /\ Len(strokes') = Len(strokes) + 1
        undo == last'.ev = "KeyPressed" /\ last'.arg[2] = "undo"
    IN  stroke_run' =
            IF commit
            THEN IF stroke_run.undos = 0
                 THEN [stroke_run EXCEPT !.commits = @ + 1]
                 ELSE [stroke_run EXCEPT !.pure = FALSE]
            ELSE IF undo /\ stroke_run.undos < stroke_run.commits
            THEN [stroke_run EXCEPT !.undos = @ + 1]
            ELSE stroke_run

NextStrokes ==
    /\ StrokeEvent
    /\ Within(MaxStrokes, MaxDrawn, 0, MaxHeld)'
    /\ TrackStrokes
    /\ UNCHANGED <<typing_run, insert_run, gesture_run>>

SpecStrokes == Init /\ [][NextStrokes]_vars

\* --------------------------------------------- inserting and erasing
\* right clicks, typing, Enter and Backspace
EditEvent ==
    \/ NoTap /\ \E position \in {Origin, Far} : CursorMoved(position)
    \/ NoTap /\ RightPress
    \/ NoTap /\ \E key \in Chars \cup {"Enter", "Backspace"} : KeyPressed(key)
    \/ Release

\* insert_run holds the texts as they were before the character that the
\* step just taken inserted, when it inserted one
TrackInsert ==
    insert_run' =
        IF /\ last'.ev = "KeyPressed" /\ last'.arg[1] \in Chars
           /\ last'.arg[2] = "typing" /\ last'.redraw
        THEN [inserted |-> TRUE, before |-> texts]
        ELSE NoInsert

NextEdit ==
    /\ EditEvent
    /\ Within(MaxTexts, 0, MaxTyped, MaxHeld)'
    /\ TrackInsert
    /\ UNCHANGED <<stroke_run, typing_run, gesture_run>>

SpecEdit == Init /\ [][NextEdit]_vars

\* ------------------------------------------------- one left-button gesture
\* left-button drags with the shape key pressed and released at any moment
GestureEvent ==
    \/ \E position \in {Origin, Far} : CursorMoved(position)
    \/ LeftPress
    \/ LeftRelease
    \/ KeyPressed("s")
    \/ Release

\* gesture_run counts the actions appended to the log from a left-button-down
\* up to and including the next left-button-up
TrackGesture ==
    LET grown == IF Len(actions') > Len(actions)
                 THEN Len(actions') - Len(actions) ELSE 0
    IN  gesture_run' =
            IF last'.ev = "LeftPress" THEN 0
            ELSE IF mouse_pressed THEN gesture_run + grown
            ELSE gesture_run

NextGesture ==
    /\ GestureEvent
    /\ Within(MaxGesture, MaxPoints, 0, 1)'
    /\ TrackGesture
    /\ UNCHANGED <<stroke_run, typing_run, insert_run>>

SpecGesture == Init /\ [][NextGesture]_vars

\* -------------------------------------------------------- rendering
\* freehand drags, each followed or not by a redraw: update builds the
\* stroke vertices from the log and the stroke in progress
RenderEvent ==
    \/ \E position \in {Origin, Far} : CursorMoved(position)
    \/ LeftPress
    \/ LeftRelease
    \/ Update

NextRender ==
    /\ RenderEvent
    /\ Within(MaxScene, MaxRendered, 0, 0)'
    /\ UNCHANGED <<stroke_run, typing_run, insert_run, gesture_run>>

SpecRender == Init /\ [][NextRender]_vars

\* drags with the shape key held, each followed or not by a redraw: render
\* builds the rectangle vertices from the shapes and the rectangle dragged
OutlineEvent ==
    \/ \E position \in Positions : CursorMoved(position)
    \/ LeftPress
    \/ LeftRelease
    \/ KeyPressed("s")
    \/ Release
    \/ Render

NextOutline ==
    /\ OutlineEvent
    /\ Within(MaxScene, 0, 0, MaxHeld)'
    /\ UNCHANGED <<stroke_run, typing_run, insert_run, gesture_run>>

SpecOutline == Init /\ [][NextOutline]_vars

\* ------------------------------------------------- focus and the caret
\* a text-edit session with keys held, focus changes, the three polls of the
\* caret blink, and time passing
FocusEvent ==
    \/ NoTap /\ RightPress
    \/ NoTap /\ \E key \in {"s", "Enter"} : KeyPressed(key)
    \/ Release
    \/ NoTap /\ \E focused \in BOOLEAN : Focused(focused)
    \/ NoTap /\ Update
    \/ NoTap /\ AboutToWait
    \/ NoTap /\ Tick

NextFocus ==
    /\ FocusEvent
    /\ Within(MaxTexts, 0, MaxChars, MaxHeld)'
    /\ UNCHANGED <<stroke_run, typing_run, insert_run, gesture_run>>

SpecFocus == Init /\ [][NextFocus]_vars

\* =============================================================== claims
\* the step just taken was an undo (the Ctrl+Z branch or the toolbar button)
UndoRan == last.ev \in {"KeyPressed", "ToolbarUndo"} /\ last.arg[2] = "undo"
\* the last event handled was a right press
RightPressed == last.ev = "RightPress"
\* this step is a right press (Tick, which keeps `last`, never leaves a click
\* zero milliseconds old); it was classified as a double click
RightPressStep == last'.ev = "RightPress" /\ last_click_time' = Some(0)
DoubleClickStep == RightPressStep /\ last'.arg[1]
\* the texts whose bounds contain the pointer
TextsUnderPointer ==
    {i \in 1..Len(texts) : InBounds(texts[i].bounds, last_cursor_position)}

\* C1: in every reachable state the action log has as many entries as
\* strokes, shapes and texts have elements together, also while a text is
\* pending and after a double-click re-edit.
C1_LogCountsScene ==
    Len(actions) = Len(strokes) + Len(shapes) + Len(texts)

\* C2: after N drags that each committed a non-empty stroke and then N
\* Ctrl+Z undos, with no shapes and no text, strokes and the action log are
\* both empty.
C2_UndoAllStrokes ==
    (stroke_run.pure /\ stroke_run.undos = stroke_run.commits)
        => strokes = <<>> /\ actions = <<>> /\ shapes = <<>> /\ texts = <<>>

C2_Witness ==
    /\ stroke_run.pure
    /\ stroke_run.commits = 2
    /\ stroke_run.undos = 2
    /\ UndoRan

\* C3: an undo on a non-empty log removes exactly the last action and
\* exactly the last element of the collection of that action's variant, and
\* leaves the other two collections and all remaining elements unchanged.
C3_UndoPopsMatching ==
    [][(UndoRan' /\ actions # <<>>) =>
          /\ actions' = Front(actions)
          /\ Last(actions).tag = "Stroke" =>
                /\ strokes # <<>> /\ strokes' = Front(strokes)
                /\ shapes' = shapes /\ texts' = texts
          /\ Last(actions).tag = "Shapes" =>
                /\ shapes # <<>> /\ shapes' = Front(shapes)
                /\ strokes' = strokes /\ texts' = texts
          /\ Last(actions).tag = "Text" =>
                /\ texts # <<>> /\ texts' = Front(texts)
                /\ strokes' = strokes /\ shapes' = shapes]_vars

\* stroke A committed, a text committed, one Ctrl+Z: the text is gone, the
\* stroke is still there and the log holds one action
C3_Witness ==
    /\ last.ev = "KeyPressed" /\ last.arg[2] = "undo" /\ last.arg[3] = "Text"
    /\ texts = <<>>
    /\ Len(strokes) = 1
    /\ Len(actions) = 1 /\ actions[1] = ActionStroke(strokes[1])

\* C4: in every state, a text-edit session included, a key press that
\* leaves Control and 'z' both held pops the last entry of a non-empty log.
C4_ChordPopsInEveryState ==
    [][(last'.ev = "KeyPressed" /\ {"Control", "z"} \subseteq pressed_keys'
            /\ actions # <<>>)
          => actions' = Front(actions)]_vars

\* C5: an undo with an empty action log changes nothing: strokes, shapes,
\* texts, the log and the edit session stay as they are, and nothing panics.
C5_UndoOnEmptyLog ==
    [][(UndoRan' /\ actions = <<>>) =>
          /\ UNCHANGED <<strokes, shapes, texts, actions, start_typing,
                         editing_text_index>>
          /\ ~panicked']_vars

\* an undo has run on an empty log while a text annotation exists
C5_Witness ==
    UndoRan /\ last.arg[3] = "none" /\ actions = <<>> /\ texts # <<>>

\* C6: a text created by a right click from Idle, after typing c1..cn and
\* Enter, has content exactly c1..cn and pending = false, and the log has
\* grown by exactly one action, a Text action.
C6_TypedThenEnter ==
    typing_run.stage = "entered" =>
        /\ typing_run.index = Len(texts)
        /\ texts[typing_run.index].text = typing_run.typed
        /\ ~texts[typing_run.index].pending
        /\ Len(actions) = typing_run.log + 1
        /\ Last(actions) = ActionText(texts[typing_run.index])

\* two different chars were typed and Enter pressed
C6_Witness ==
    /\ typing_run.stage = "entered"
    /\ typing_run.typed = <<"z", "s">>
    /\ last.ev = "KeyPressed" /\ last.arg[1] = "Enter"

\* C7: a double right click inside the bounds of one or more texts leaves
\* the interpreter in TextEdit targeting the lowest such index, that text's
\* content unchanged and its pending flag set; if no bounds contain the
\* point, no index is targeted.
C7_DoubleClickTargets ==
    [][DoubleClickStep =>
          IF TextsUnderPointer # {}
          THEN LET i == MinOf(TextsUnderPointer)
               IN  /\ start_typing'
                   /\ editing_text_index' = Some(i - 1)
                   /\ texts'[i].text = texts[i].text
                   /\ texts'[i].pending
          ELSE editing_text_index' = None]_vars

\* C8: a double right click that hits a text leaves the number of texts
\* unchanged; a text is created only by a click outside every text's bounds.
C8_HitCreatesNothing ==
    [][DoubleClickStep =>
          /\ TextsUnderPointer # {} => Len(texts') = Len(texts)
          /\ Len(texts') > Len(texts) => TextsUnderPointer = {}]_vars

\* C9: from Idle, after two right clicks within 500 ms and 5 px of each
\* other, both outside every text's bounds, the interpreter is in TextEdit
\* and the last text is a new one: empty, pending, at the click point.
C9_DoubleMissOpensText ==
    [][(/\ RightPressed /\ last.arg[3] /\ last.arg[2] = None
        /\ \A i \in 1..Len(texts) :
              ~InBounds(texts[i].bounds, Unwrap(last_click_position))
        /\ DoubleClickStep /\ TextsUnderPointer = {})
          => /\ start_typing'
             /\ texts' # <<>>
             /\ Last(texts').text = <<>>
             /\ Last(texts').pending
             /\ Last(texts').position = last_cursor_position]_vars

\* C10: a right click that is no double click, in TextEdit (targeting the
\* last-created text or an index), commits the current text (pending =
\* false, one Text action pushed), creates no text and returns to Idle.
C10_RightClickCommits ==
    [][(/\ RightPressStep /\ ~last'.arg[1]
        /\ (start_typing \/ editing_text_index # None))
          => /\ ~start_typing' /\ editing_text_index' = None
             /\ Len(texts') = Len(texts)
             /\ Len(actions') = Len(actions) + 1
             /\ Last(actions').tag = "Text"
             /\ \A i \in 1..Len(texts') : ~texts'[i].pending]_vars

\* a text-edit session is active
TextEdit == start_typing \/ editing_text_index # None
\* the text the session targets, as an index of texts: the session's index when
\* one is set, otherwise the most recently created text
Targeted ==
    IF editing_text_index # None THEN Unwrap(editing_text_index) + 1
    ELSE Len(texts)
\* this step is a press of `key`
PressStep(key) == last'.ev = "KeyPressed" /\ last'.arg[1] = key

\* C11: in TextEdit a character key press appends the character to the
\* content of the targeted text (the one at the session's index when set,
\* otherwise the last created); no other text's content changes.
C11_CharGoesToTarget ==
    [][\A c \in Chars :
          (PressStep(c) /\ TextEdit /\ Targeted \in 1..Len(texts))
            => texts' = [texts EXCEPT ![Targeted].text = Append(@, c)]]_vars

\* C12: Enter in TextEdit always ends the session: afterwards the
\* interpreter is not typing, no index is targeted, and the log has grown by
\* exactly one action, a Text action.
C12_EnterEndsSession ==
    [][(PressStep("Enter") /\ TextEdit)
          => /\ ~start_typing'
             /\ editing_text_index' = None
             /\ Len(actions') = Len(actions) + 1
             /\ SubSeq(actions', 1, Len(actions)) = actions
             /\ Last(actions').tag = "Text"]_vars

\* Enter has ended a session that a double click had opened on the first
\* text: that text still carries the mark of the re-edit
C12_Witness ==
    /\ last.ev = "KeyPressed" /\ last.arg[1] = "Enter" /\ last.arg[2] = "typing"
    /\ ~start_typing /\ editing_text_index = None
    /\ Len(texts) = 2 /\ texts[1].pending
    /\ Len(actions) = 1

\* C13: whenever no text-edit session is active (not typing, no index
\* targeted) no text has pending = true.
C13_NoPendingOutsideSession ==
    ~TextEdit => \A i \in 1..Len(texts) : ~texts[i].pending

\* C14: a Backspace press in TextEdit removes exactly one character, the
\* last, from the targeted pending text when it is non-empty, and leaves
\* all state unchanged when it is empty; it never removes two characters
\* and never panics.
C14_BackspaceRemovesOne ==
    [][(PressStep("Backspace") /\ TextEdit)
          => /\ ~panicked'
             /\ (Targeted \in 1..Len(texts) /\ texts[Targeted].pending)
                  => /\ texts' =
                          IF texts[Targeted].text = <<>> THEN texts
                          ELSE [texts EXCEPT ![Targeted].text = Front(@)]
                     /\ UNCHANGED <<actions, strokes, shapes, start_typing,
                                    editing_text_index>>]_vars

\* a Backspace has removed a character from a text of two characters that a
\* double click had re-opened
C14_Witness ==
    /\ last.ev = "KeyPressed" /\ last.arg[1] = "Backspace" /\ last.redraw
    /\ editing_text_index = Some(0)
    /\ Len(texts) = 2 /\ Len(texts[1].text) = 1

\* the content of every text, by index
Contents(ts) == [i \in 1..Len(ts) |-> ts[i].text]

\* C15: in any text-edit session, whether it targets the last-created text or
\* an explicit index, inserting one character and then pressing Backspace
\* restores the contents of all texts to what they were before the insertion.
C15_InsertThenBackspace ==
    [][(insert_run.inserted /\ PressStep("Backspace"))
          => Contents(texts') = Contents(insert_run.before)]_vars

\* C16: the content of a text whose pending flag is false is never changed
\* by any event: character input, Backspace, Delete, Enter, pointer clicks,
\* or an undo from the keyboard or the toolbar (an undo may remove a text
\* altogether; the texts that remain keep their content).
C16_CommittedTextFrozen ==
    [][\A i \in 1..Len(texts) :
          (~texts[i].pending /\ i <= Len(texts'))
            => texts'[i].text = texts[i].text]_vars

\* this step is a pointer move to `position`
MoveStep(position) == last'.ev = "CursorMoved" /\ last'.arg[1] = position
\* the point a pointer move to `position` records: normalised device
\* coordinates (scaled by the window size) in the current colour
Recorded(position) ==
    [position |-> <<2 * position[1] - SizeWidth, -(2 * position[2] - SizeHeight)>>,
     color |-> current_color]

\* C17: during a freehand drag every pointer move appends its point to the
\* in-progress stroke; on left-button-up, if at least one point was recorded
\* strokes gains one stroke equal to the recorded points in move order, the
\* log gains one Stroke action of it and the in-progress stroke is emptied;
\* if no point was recorded, neither strokes nor the log changes.
C17_StrokeCommitted ==
    [][/\ \A position \in Positions :
             (MoveStep(position) /\ mouse_pressed /\ ~create_rect)
               => current_stroke' = Append(current_stroke, Recorded(position))
       /\ (last'.ev = "LeftRelease" /\ shape_positions = <<>>)
             => /\ current_stroke' = <<>>
                /\ IF current_stroke # <<>>
                   THEN /\ strokes' = Append(strokes, current_stroke)
                        /\ Len(actions') = Len(actions) + 1
                        /\ SubSeq(actions', 1, Len(actions)) = actions
                        /\ Last(actions').tag = "Stroke"
                        /\ Last(actions').payload = current_stroke
                   ELSE strokes' = strokes /\ actions' = actions]_vars

\* a drag over two different points has been committed, in move order
C17_Witness ==
    /\ last.ev = "LeftRelease"
    /\ strokes # <<>>
    /\ Last(strokes) = <<Recorded(Far), Recorded(Origin)>>
    /\ actions # <<>> /\ Last(actions).payload = Last(strokes)
    /\ current_stroke = <<>>

\* C18: during a shape drag the in-progress shape holds at most two points
\* at all times: the first point recorded in the gesture and the most recent
\* pointer-move position; the rectangle committed has first = that first
\* point and last = the final pointer-move position.
C18_ShapeKeepsTwoPoints ==
    [][/\ Len(shape_positions') <= 2
       /\ shape_positions' # <<>>
             => Last(shape_positions') = Recorded(last_cursor_position')
       /\ \A position \in Positions :
             (MoveStep(position) /\ mouse_pressed /\ create_rect)
               => /\ shape_positions' # <<>>
                  /\ Last(shape_positions') = Recorded(position)
                  /\ shape_positions # <<>>
                        => shape_positions'[1] = shape_positions[1]
       /\ (last'.ev = "LeftRelease" /\ shape_positions # <<>>)
             => shapes' =
                  Append(shapes,
                         [first |-> shape_positions[1].position,
                          last |-> Recorded(last_cursor_position).position,
                          color |-> current_color])]_vars

\* a rectangle dragged from Far to Origin has been committed
C18_Witness ==
    /\ last.ev = "LeftRelease"
    /\ shapes # <<>>
    /\ Last(shapes).first = Recorded(Far).position
    /\ Last(shapes).last = Recorded(Origin).position
    /\ shape_positions = <<>>

\* C19: in a shape drag (left-button-down with the shape-modifier key
\* held) the first corner of the rectangle is the pointer position at the
\* press: the first point the gesture records, which the commit takes as
\* the rectangle's first corner, is the point of the press position.
C19_FirstCornerAtPress ==
    [][(/\ last.ev = "LeftPress" /\ "s" \in pressed_keys
        /\ mouse_pressed /\ create_rect /\ shape_positions = <<>>
        /\ last'.ev = "CursorMoved")
          => /\ shape_positions' # <<>>
             /\ shape_positions'[1] = Recorded(last_cursor_position)]_vars

\* C20: strokes and shapes gain an element only in a left-button-up step: no
\* key press, key release, pointer move or right click appends a stroke or
\* a shape.
C20_OnlyReleaseCommits ==
    [][(Len(strokes') > Len(strokes) \/ Len(shapes') > Len(shapes))
          => last'.ev = "LeftRelease"]_vars

\* s is an initial segment of t
IsPrefix(s, t) == Len(s) <= Len(t) /\ SubSeq(t, 1, Len(s)) = s
\* what identifies a text whatever its content and pending flag
Placed(ts) ==
    [i \in 1..Len(ts) |-> <<ts[i].position, ts[i].color, ts[i].font_size,
                            ts[i].bounds>>]
\* t is s, or s without its last element
SameOrPopped(s, t) == t = s \/ (s # <<>> /\ t = Front(s))

\* C21: strokes, shapes and texts lose elements only in an undo step, and an
\* undo step removes at most one element, always the last one of a single
\* collection; no other event deletes or reorders committed elements.
C21_OnlyUndoRemoves ==
    [][IF UndoRan'
       THEN /\ SameOrPopped(strokes, strokes')
            /\ SameOrPopped(shapes, shapes')
            /\ SameOrPopped(texts, texts')
            /\ Len(strokes') + Len(shapes') + Len(texts') + 1
                  >= Len(strokes) + Len(shapes) + Len(texts)
       ELSE /\ IsPrefix(strokes, strokes')
            /\ IsPrefix(shapes, shapes')
            /\ IsPrefix(Placed(texts), Placed(texts'))]_vars

\* an undo has removed a shape and left the stroke drawn before it in place
C21_Witness ==
    /\ UndoRan /\ last.arg[3] = "Shapes"
    /\ shapes = <<>> /\ Len(strokes) = 1 /\ Len(actions) = 1

\* the collections, the log and the text-edit session state
Drawing == <<strokes, shapes, texts, actions, start_typing, editing_text_index>>

\* C22: every handler step that changes strokes, shapes, texts, the action
\* log or the text-edit session state requests a redraw in that same step.
C22_MutationRequestsRedraw ==
    [][Drawing' # Drawing => last'.redraw]_vars

\* this step is the handling of a focus event (Tick, which keeps `last`, moves
\* the clocks forward and nothing else)
FocusStep(focused) ==
    /\ last'.ev = "Focused" /\ last'.arg[1] = focused
    /\ cursor_timer' <= cursor_timer
    /\ last_click_time' = last_click_time

\* C23: after a focus-loss event the held-keys set is empty, so a key whose
\* release was never delivered cannot later satisfy the shape-modifier test
\* or the Ctrl+Z chord test.
C23_FocusLossClearsKeys ==
    [][FocusStep(FALSE) => pressed_keys' = {}]_vars

\* C27: caret visibility flips only at a poll (focus event, redraw update,
\* idle tick) made while a text-edit session is active and at least 0.5 s
\* after the previous flip, and every flip resets the shared timer, which
\* nothing else resets; so two flips are never less than 0.5 s apart and
\* one poll flips at most once.
C27_BlinkEveryHalfSecond ==
    [][IF cursor_visible' # cursor_visible
       THEN /\ last'.ev \in {"Focused", "update", "about_to_wait"}
            /\ start_typing
            /\ cursor_timer >= 500
            /\ cursor_timer' = 0
       ELSE cursor_timer' >= cursor_timer]_vars

\* the caret has been shown and hidden again: a second flip, by the redraw
\* update, half a second after the first
C27_Witness ==
    /\ last.ev = "update" /\ last.redraw
    /\ ~cursor_visible /\ cursor_timer = 0
    /\ start_typing

\* C28: a focus-loss event received during a text-edit session commits the
\* pending text: afterwards it has pending = false, a Text action has been
\* appended, and the interpreter is no longer in TextEdit.
C28_FocusLossCommits ==
    [][(FocusStep(FALSE) /\ TextEdit)
          => /\ ~TextEdit'
             /\ \A i \in 1..Len(texts') : ~texts'[i].pending
             /\ Len(actions') = Len(actions) + 1
             /\ Last(actions').tag = "Text"]_vars

\* C24: a right-button press is classified as a double-click if and only
\* if a previous right press exists, at most 500 ms have elapsed since it
\* and the squared distance between the two positions is at most 25 (both
\* inclusive); the first right press ever is never a double-click, and no
\* right press fails.
C24_DoubleClickClassified ==
    [][RightPressStep =>
          /\ last'.arg[1] <=>
                /\ last_click_time # <<>> /\ last_click_position # <<>>
                /\ last_click_time[1] <= 500
                /\ (last_cursor_position[1] - last_click_position[1][1])
                     * (last_cursor_position[1] - last_click_position[1][1])
                   + (last_cursor_position[2] - last_click_position[1][2])
                     * (last_cursor_position[2] - last_click_position[1][2])
                   <= 25
          /\ last_click_time = <<>> => ~last'.arg[1]
          /\ ~panicked']_vars

\* a right press has just been classified as a double-click, the pointer
\* resting three pixels right of and four below the origin
C24_Witness ==
    /\ last.ev = "RightPress" /\ last.arg[1]
    /\ last_click_time = Some(0)
    /\ last_click_position = Some(Near)

\* the adjacent pairs of a stroke, one after the other: (s[1], s[2]),
\* (s[2], s[3]), ...; nothing when the stroke has fewer than two vertices
AdjacentPairs(s) ==
    [k \in 1..(IF Len(s) >= 2 THEN 2 * (Len(s) - 1) ELSE 0) |->
        s[(k + 1) \div 2 + (IF k % 2 = 0 THEN 1 ELSE 0)]]

\* the adjacent pairs of every stroke of a list, in the order of the list
RECURSIVE PairsOfAll(_)
PairsOfAll(ss) ==
    IF ss = <<>> THEN <<>>
    ELSE AdjacentPairs(ss[1]) \o PairsOfAll(Tail(ss))

\* 2(n-1) for every stroke of n >= 2 vertices of a list, summed
RECURSIVE PairVertices(_)
PairVertices(ss) ==
    IF ss = <<>> THEN 0
    ELSE (IF Len(ss[1]) >= 2 THEN 2 * (Len(ss[1]) - 1) ELSE 0)
         + PairVertices(Tail(ss))

\* C25: the stroke vertex list update builds holds, for every committed
\* stroke and then the stroke in progress, exactly the n-1 adjacent pairs
\* (vertex[i], vertex[i+1]) of a stroke of n >= 2 vertices, in order, and
\* nothing for a stroke of 0 or 1 vertices.
C25_StrokeSegmentPairs ==
    last.ev = "update" =>
        /\ vertex_buffer = PairsOfAll(Append(strokes, current_stroke))
        /\ Len(vertex_buffer) = PairVertices(Append(strokes, current_stroke))

\* update has drawn a committed stroke of three vertices, nothing for a
\* committed stroke of one vertex, and a stroke in progress of two vertices
C25_Witness ==
    /\ last.ev = "update"
    /\ Len(strokes) = 2 /\ Len(strokes[1]) = 3 /\ Len(strokes[2]) = 1
    /\ Len(current_stroke) = 2
    /\ Len(vertex_buffer) = 6

\* the eight vertices render drew for the r-th rectangle
Outline(r) == SubSeq(flattened_shapes, 8 * (r - 1) + 1, 8 * r)

\* the four sides of a rectangle as unordered pairs of corners
Sides(rect) ==
    LET c1 == <<rect.first[1], rect.first[2]>>
        c2 == <<rect.last[1], rect.first[2]>>
        c3 == <<rect.last[1], rect.last[2]>>
        c4 == <<rect.first[1], rect.last[2]>>
    IN  {{c1, c2}, {c2, c3}, {c3, c4}, {c4, c1}}

\* C26: for every rectangle, to_vertices yields exactly 8 vertices that
\* form 4 two-vertex segments, each axis-aligned, which together trace the
\* closed outline through (x1,y1), (x2,y1), (x2,y2), (x1,y2), every vertex
\* in the rectangle's colour.
C26_RectangleOutline ==
    last.ev = "render" =>
        /\ Len(flattened_shapes) = 8 * Len(temp_shapes)
        /\ \A r \in 1..Len(temp_shapes) :
              LET b == Outline(r)
                  rect == temp_shapes[r]
              IN  /\ \A k \in 1..8 : b[k].color = rect.color
                  /\ \A k \in 1..4 :
                        \/ b[2 * k - 1].position[1] = b[2 * k].position[1]
                        \/ b[2 * k - 1].position[2] = b[2 * k].position[2]
                  /\ \A k \in 1..4 :
                        b[2 * k].position = b[((2 * k) % 8) + 1].position
                  /\ {{b[2 * k - 1].position, b[2 * k].position} :
                         k \in 1..4} = Sides(rect)

\* render has drawn a committed rectangle whose corners differ in x and in
\* y, and the rectangle being dragged
C26_Witness ==
    /\ last.ev = "render"
    /\ Len(shapes) = 1
    /\ shapes[1].first[1] # shapes[1].last[1]
    /\ shapes[1].first[2] # shapes[1].last[2]
    /\ Len(temp_shapes) = 2
    /\ Len(flattened_shapes) = 16

\* the payloads of the actions of one variant, in the order of the log
RECURSIVE PayloadsOf(_, _)
PayloadsOf(tag, log) ==
    IF log = <<>> THEN <<>>
    ELSE (IF log[1].tag = tag THEN <<log[1].payload>> ELSE <<>>)
         \o PayloadsOf(tag, Tail(log))

\* C29: in every reachable state the strokes collection equals, element for
\* element and in order, the payloads of the Stroke actions of the log, and
\* the shapes collection the payloads of the Shapes actions; so the strokes
\* update draws from the log are the strokes collection undo pops.
C29_CollectionsMirrorLog ==
    /\ strokes = PayloadsOf("Stroke", actions)
    /\ shapes = PayloadsOf("Shapes", actions)
    /\ all_vertices(actions, current_stroke)
          = PairsOfAll(Append(strokes, current_stroke))

\* a rectangle was committed, then a stroke
C29_Witness ==
    /\ Len(actions) = 2
    /\ actions[1].tag = "Shapes" /\ actions[2].tag = "Stroke"
    /\ Len(strokes) = 1 /\ Len(shapes) = 1
    /\ last.ev = "LeftRelease"

\* C30: whenever the edit session targets an index i, i < len(texts), in
\* every state reachable by pointer events, keyboard events and the
\* toolbar's undo; so the unchecked texts[i] of Backspace never panics.
C30_TargetInBounds ==
    /\ editing_text_index # <<>> => editing_text_index[1] < Len(texts)
    /\ ~panicked

\* Backspace has just indexed texts[0], the only text left after the
\* toolbar's undo popped the text pushed behind it
C30_Witness ==
    /\ last.ev = "KeyPressed" /\ last.arg[1] = "Backspace"
    /\ editing_text_index = Some(0)
    /\ Len(texts) = 1 /\ actions = <<>>
    /\ ~panicked

\* C31: in-progress geometry exists only during a left-button drag: a
\* non-empty stroke in progress implies the left button is down, a non-empty
\* shape in progress implies the left button is down and shape mode is on,
\* and after left-button-up both are empty.
C31_InProgressOnlyInDrag ==
    /\ current_stroke # <<>> => mouse_pressed
    /\ shape_positions # <<>> => mouse_pressed /\ create_rect
    /\ last.ev = "LeftRelease" => current_stroke = <<>> /\ shape_positions = <<>>

\* left-button-up has just committed a rectangle dragged in shape mode
C31_Witness ==
    /\ last.ev = "LeftRelease"
    /\ shapes # <<>> /\ Last(actions).tag = "Shapes"
    /\ ~mouse_pressed /\ ~create_rect
    /\ current_stroke = <<>> /\ shape_positions = <<>>

\* C32: a single left-button gesture, from left-button-down to the next
\* left-button-up, appends at most one action to the log, whatever key
\* presses and releases are interleaved with the pointer moves.
C32_OneActionPerGesture == gesture_run <= 1

\* C33: the interpreter is in exactly one of Idle, Drawing, ShapeDrag and
\* TextEdit at a time: a left-button drag (mouse_pressed) and a text-edit
\* session (start_typing) are never both active.
C33_OneModeAtATime == ~(mouse_pressed /\ start_typing)

\* C34: undo never pops from an empty collection: in every reachable state
\* the Stroke, Shapes and Text actions in the log are at most as many as
\* the strokes, shapes and texts, so len(actions) <= len(strokes) +
\* len(shapes) + len(texts).
C34_LogWithinScene ==
    /\ Len(PayloadsOf("Stroke", actions)) <= Len(strokes)
    /\ Len(PayloadsOf("Shapes", actions)) <= Len(shapes)
    /\ Len(PayloadsOf("Text", actions)) <= Len(texts)
    /\ Len(actions) <= Len(strokes) + Len(shapes) + Len(texts)

\* undo has just popped the only Text action together with the pending text
\* pushed behind the committed one, which stays
C34_Witness ==
    /\ UndoRan /\ last.arg[3] = "Text"
    /\ actions = <<>>
    /\ Len(texts) = 1 /\ ~texts[1].pending

\* C35: when undo pops a Text action, the text it removes from texts is
\* the one this action recorded at commit time: it has the position of the
\* snapshot stored in the action.
C35_UndoRemovesRecordedText ==
    [][(UndoRan' /\ last'.arg[3] = "Text" /\ Len(texts') < Len(texts))
          => Last(texts).position = Last(actions).payload.position]_vars

\* undo performed n times in a row
RECURSIVE UndoTimes(_, _)
UndoTimes(sc, n) == IF n = 0 THEN sc ELSE UndoTimes(Undo(sc), n - 1)

\* C36: from every reachable Idle state, performing undo len(actions)
\* times leaves strokes, shapes and texts all empty and the log empty.
C36_UndoAllEmptiesScene ==
    Idle =>
        LET after == UndoTimes(Scene, Len(actions))
        IN  /\ after.strokes = <<>>
            /\ after.shapes = <<>>
            /\ after.texts = <<>>
            /\ after.actions = <<>>

====
